---- MODULE Spec2Model ----
(***************************************************************************)
(* Model of servers/terminal_server/terminal_server.py: the tools          *)
(* run_command, github_push_file (with its helper _push_single_file) and   *)
(* github_delete_repository.  One behaviour is one tool invocation; the    *)
(* shell, the local file system and the remote REST API are the            *)
(* environment, and every answer they can give is an input of the step     *)
(* that asks for it.                                                       *)
(*                                                                         *)
(* A path string is a sequence of one-character strings, so that the       *)
(* separator replacement of _push_single_file acts on characters.          *)
(***************************************************************************)
EXTENDS Integers, Sequences, FiniteSets, TLC

VARIABLES
    pc,           \* position of the running invocation
    tool,         \* "none", "push", "delete" or "run"
    fs,           \* the non-directory entries of the project root (component paths)
    ossep,        \* os.sep of the platform the server runs on
    target,       \* github_push_file: components of project_path
    insep,        \* github_push_file: separator the caller wrote in project_path
    files,        \* github_push_file: the files in discovery order
    k,            \* github_push_file: index in files of the file being published
    github_path,  \* _push_single_file: local variable github_path
    sha,          \* _push_single_file: local variable sha
    put_res,      \* _push_single_file: local variable put_res, Unset until line 145 assigns it
    exc,          \* the exception being handled
    results,      \* github_push_file: local variable results
    log,          \* the file reads and HTTP requests issued so far, in order
    ret,          \* the dict returned by github_push_file / github_delete_repository
    out,          \* the str returned by run_command
    proc          \* run_command: what subprocess.run gave

vars == <<pc, tool, fs, ossep, target, insep, files, k, github_path, sha,
          put_res, exc, results, log, ret, out, proc>>

\* ---------------------------------------------------------------- bounds
MaxDepth == 1     \* deepest nesting of sub-directories below the workspace
MaxFiles == 2     \* most non-directory entries in the project root

\* ------------------------------------------------------------- constants
BACKSLASH == "\\"
SLASH == "/"
None == "None"
Unset == [status |-> 0, body |-> [kind |-> "unset", sha |-> None, content |-> FALSE]]
NoPath == <<>>
NoProc == [launched |-> FALSE, stdout |-> <<>>, stderr |-> <<>>, error |-> <<>>]

WorkspaceName == "w"
SubDirName == "s"
FileNames == {"a", "b"}

\* --------------------------------------------------------- file system
RECURSIVE DirAt(_)
DirAt(d) == IF d = 0 THEN <<WorkspaceName>> ELSE Append(DirAt(d - 1), SubDirName)

CandidateFiles == { Append(DirAt(d), n) : d \in 0..MaxDepth, n \in FileNames }

IsPrefix(p, q) == Len(p) <= Len(q) /\ SubSeq(q, 1, Len(p)) = p

\* line 15 creates the workspace directory, so it exists in every state
Dirs(F) == {<<WorkspaceName>>} \cup UNION { { SubSeq(f, 1, n) : n \in 1..(Len(f) - 1) } : f \in F }

CandidatePaths == CandidateFiles \cup { DirAt(d) : d \in 0..MaxDepth }

\* os.path.join: the platform always takes its os.sep; only Windows also takes "/" and "\"
Resolves(p, s) == Len(p) = 1 \/ s = SLASH \/ ossep = BACKSLASH

exists(F, p, s) == Resolves(p, s) /\ (p \in F \/ p \in Dirs(F))
isfile(F, p, s) == Resolves(p, s) /\ p \in F

RECURSIVE Join(_, _)
Join(comps, s) ==
    IF Len(comps) = 0 THEN <<>>
    ELSE IF Len(comps) = 1 THEN comps
    ELSE <<Head(comps), s>> \o Join(Tail(comps), s)

\* every order in which a directory listing can give the members of a set
RECURSIVE Orders(_)
Orders(S) ==
    IF S = {} THEN {<<>>}
    ELSE UNION { { <<x>> \o t : t \in Orders(S \ {x}) } : x \in S }

\* a walk that stops at the first level
walkTopOnly(F, dir) == Orders({ f \in F : Len(f) = Len(dir) + 1 /\ IsPrefix(dir, f) })

\* os.walk, top down: the files of a directory, then the walk of its sub-directories
RECURSIVE walk(_, _)
walk(F, dir) ==
    LET here == { f \in F : Len(f) = Len(dir) + 1 /\ IsPrefix(dir, f) }
        sub  == Append(dir, SubDirName)
    IN  IF sub \in Dirs(F)
        THEN { a \o b : a \in Orders(here), b \in walk(F, sub) }
        ELSE Orders(here)

relpath(f) == Join(f, ossep)

\* --------------------------------------------------------- remote API
Hash == "h1"
DictSha      == [kind |-> "dict", sha |-> Hash, content |-> FALSE]
DictContent  == [kind |-> "dict", sha |-> None, content |-> TRUE]
DictOther    == [kind |-> "dict", sha |-> None, content |-> FALSE]
ListBody     == [kind |-> "list", sha |-> None, content |-> FALSE]
NotJson      == [kind |-> "notjson", sha |-> None, content |-> FALSE]

Raised == [status |-> 0, body |-> [kind |-> "raised", sha |-> None, content |-> FALSE]]

GetAnswers ==
    { Raised,
      [status |-> 200, body |-> DictSha],
      [status |-> 200, body |-> DictOther],
      [status |-> 200, body |-> ListBody],
      [status |-> 404, body |-> DictSha] }

PutAnswers ==
    { Raised,
      [status |-> 201, body |-> DictContent],
      [status |-> 201, body |-> DictOther],
      [status |-> 201, body |-> NotJson],
      [status |-> 422, body |-> DictOther],
      [status |-> 502, body |-> NotJson] }

\* Response.raise_for_status raises for 4xx and 5xx
IsHttpError(res) == res.status >= 400

\* ------------------------------------------------------------------ Init
Init ==
    /\ pc = "idle"
    /\ tool = "none"
    /\ fs \in { F \in SUBSET CandidateFiles : Cardinality(F) <= MaxFiles }
    /\ ossep \in {BACKSLASH, SLASH}
    /\ target = NoPath
    /\ insep = SLASH
    /\ files = <<>>
    /\ k = 0
    /\ github_path = NoPath
    /\ sha = None
    /\ put_res = Unset
    /\ exc = None
    /\ results = <<>>
    /\ log = <<>>
    /\ ret = <<>>
    /\ out = <<>>
    /\ proc = NoProc

\* ------------------------------------------------- github_push_file
replace(s) == [i \in 1..Len(s) |-> IF s[i] = BACKSLASH THEN SLASH ELSE s[i]]

RECURSIVE CountStatus(_, _)
CountStatus(rs, st) ==
    IF rs = <<>> THEN 0
    ELSE (IF Head(rs).status = st THEN 1 ELSE 0) + CountStatus(Tail(rs), st)

PushReport(rs) ==
    [status |-> "complete",
     success_count |-> CountStatus(rs, "success"),
     error_count |-> CountStatus(rs, "error"),
     details |-> rs]

\* lines 85-109 up to the first call of _push_single_file
PushFiles(F, p, s) ==
    IF isfile(F, p, s)
    THEN { << [local |-> p, rel |-> Join(p, s)] >> }
    ELSE { [i \in 1..Len(w) |-> [local |-> w[i], rel |-> relpath(w[i])]] :
             w \in (IF p \in Dirs(F) THEN walk(F, p) ELSE {<<>>}) }

\* lines 98/109: results.append(result)
PrependResult(rs, r) == <<r>> \o rs

AppendResult(rs, r) == Append(rs, r)

\* a check that lets every path through
PathUnchecked(F, p, s) == TRUE

\* line 88
PathChecked(F, p, s) == exists(F, p, s)

InvokePush(p, s) ==
    /\ pc = "idle"
    /\ tool' = "push"
    /\ target' = p
    /\ insep' = s
    /\ IF ~PathChecked(fs, p, s)
       THEN /\ ret' = [error |-> <<"Path not found: ", Join(p, s)>>]
            /\ pc' = "done"
            /\ UNCHANGED files
       ELSE /\ files' \in PushFiles(fs, p, s)
            /\ pc' = "loop"
            /\ UNCHANGED ret
    /\ UNCHANGED <<fs, ossep, k, github_path, sha, put_res, exc, results, log, out, proc>>

\* lines 95/106: the next file enters _push_single_file
CallPushSingle ==
    /\ pc = "loop"
    /\ k < Len(files)
    /\ k' = k + 1
    /\ github_path' = files[k + 1].rel
    /\ sha' = None
    /\ put_res' = Unset
    /\ exc' = None
    /\ pc' = "open"
    /\ UNCHANGED <<tool, fs, ossep, target, insep, files, results, log, ret, out, proc>>

\* lines 111-116
ReturnReport ==
    /\ pc = "loop"
    /\ k = Len(files)
    /\ ret' = PushReport(results)
    /\ pc' = "done"
    /\ UNCHANGED <<tool, fs, ossep, target, insep, files, k, github_path, sha,
                   put_res, exc, results, log, out, proc>>

\* ------------------------------------------------ _push_single_file
ReadEvent(ok) ==
    [op |-> "READ", file |-> k, path |-> github_path, sha |-> None,
     res |-> [status |-> (IF ok THEN 1 ELSE 0), body |-> DictOther]]

\* lines 124-129: read the file as UTF-8 text, then normalise the separators
OpenRead(ok) ==
    /\ pc = "open"
    /\ log' = Append(log, ReadEvent(ok))
    /\ IF ok
       THEN /\ github_path' = replace(github_path)
            /\ pc' = "get"
            /\ UNCHANGED exc
       ELSE /\ exc' = "UnicodeDecodeError"
            /\ pc' = "except"
            /\ UNCHANGED github_path
    /\ UNCHANGED <<tool, fs, ossep, target, insep, files, k, sha, put_res,
                   results, ret, out, proc>>

\* the sha of the body whatever the status
ShaOfAnyStatus(get_res) == get_res.body.sha

\* line 133: get_res.json().get("sha") if get_res.status_code == 200 else None
ShaOf(get_res) == IF get_res.status = 200 THEN get_res.body.sha ELSE None

\* line 133 raises when a 200 answer is not a JSON object
ShaRaises(get_res) == get_res.status = 200 /\ get_res.body.kind # "dict"

\* lines 132-133
Get(get_res) ==
    /\ pc = "get"
    /\ log' = Append(log, [op |-> "GET", file |-> k, path |-> github_path,
                           sha |-> None, res |-> get_res])
    /\ IF get_res = Raised
       THEN /\ exc' = "ConnectionError"
            /\ pc' = "except"
            /\ UNCHANGED sha
       ELSE IF ShaRaises(get_res)
       THEN /\ exc' = (IF get_res.body.kind = "list" THEN "AttributeError"
                       ELSE "JSONDecodeError")
            /\ pc' = "except"
            /\ UNCHANGED sha
       ELSE /\ sha' = ShaOf(get_res)
            /\ pc' = "put"
            /\ UNCHANGED exc
    /\ UNCHANGED <<tool, fs, ossep, target, insep, files, k, github_path,
                   put_res, results, ret, out, proc>>

\* lines 136-142: the sha key is added only for a truthy sha
Payload(h) ==
    IF h # None /\ h # ""
    THEN [message |-> "commit_message", content |-> "b64", branch |-> "branch", sha |-> h]
    ELSE [message |-> "commit_message", content |-> "b64", branch |-> "branch"]

PayloadSha(payload) == IF "sha" \in DOMAIN payload THEN payload.sha ELSE None

\* a PUT whose status and body shape are never looked at
PutRaisesOnlyOnText(res) == IF res.body.kind = "notjson" THEN "JSONDecodeError" ELSE None

\* lines 146-152: what the answer of the PUT raises, None when it raises nothing
PutRaises(res) ==
    IF IsHttpError(res) THEN "HTTPError"
    ELSE IF res.body.kind = "notjson" THEN "JSONDecodeError"
    ELSE IF res.body.kind = "list" THEN "TypeError"
    ELSE IF ~res.body.content THEN "KeyError"
    ELSE None

SuccessRecord(path) == [status |-> "success", path |-> path, html_url |-> "html_url"]

\* lines 136-152
Put(res) ==
    /\ pc = "put"
    /\ log' = Append(log, [op |-> "PUT", file |-> k, path |-> github_path,
                           sha |-> PayloadSha(Payload(sha)), res |-> res])
    /\ IF res = Raised
       THEN /\ exc' = "ConnectionError"
            /\ pc' = "except"
            /\ UNCHANGED <<put_res, results>>
       ELSE /\ put_res' = res
            /\ IF PutRaises(res) # None
               THEN /\ exc' = PutRaises(res)
                    /\ pc' = "except"
                    /\ UNCHANGED results
               ELSE /\ results' = AppendResult(results, SuccessRecord(github_path))
                    /\ pc' = "loop"
                    /\ UNCHANGED exc
    /\ UNCHANGED <<tool, fs, ossep, target, insep, files, k, github_path, sha, ret, out, proc>>

\* line 159: put_res.json() if 'put_res' in locals() else None
HandlerRaises(pr) == pr # Unset /\ pr.body.kind = "notjson"

ErrorRecord(path, e, pr) ==
    [status |-> "error", path |-> path, error |-> e,
     details |-> pr.body]    \* the body of Unset stands for None

\* lines 154-160: an exception raised inside the handler leaves
\* _push_single_file and, through the await, github_push_file
Except ==
    /\ pc = "except"
    /\ IF HandlerRaises(put_res)
       THEN /\ exc' = "JSONDecodeError"
            /\ pc' = "raised"
            /\ UNCHANGED results
       ELSE /\ results' = AppendResult(results, ErrorRecord(github_path, exc, put_res))
            /\ pc' = "loop"
            /\ UNCHANGED exc
    /\ UNCHANGED <<tool, fs, ossep, target, insep, files, k, github_path, sha,
                   put_res, log, ret, out, proc>>

\* --------------------------------------- github_delete_repository
CheckAnswers ==
    { Raised,
      [status |-> 200, body |-> DictOther],
      [status |-> 404, body |-> DictOther],
      [status |-> 404, body |-> NotJson],
      [status |-> 404, body |-> ListBody] }

DeleteAnswers ==
    { Raised,
      [status |-> 204, body |-> NotJson],
      [status |-> 403, body |-> DictOther],
      [status |-> 403, body |-> NotJson],
      [status |-> 200, body |-> DictOther] }

InvokeDelete ==
    /\ pc = "idle"
    /\ tool' = "delete"
    /\ pc' = "check"
    /\ UNCHANGED <<fs, ossep, target, insep, files, k, github_path, sha, put_res,
                   exc, results, log, ret, out, proc>>

\* an existence check whose status is never looked at
CheckAlwaysPasses(res) == TRUE

\* line 195: raise_for_status
CheckPasses(res) == ~IsHttpError(res)

\* lines 194-195 and the handlers of lines 211-221
Check(res) ==
    /\ pc = "check"
    /\ log' = Append(log, [op |-> "GET", file |-> 0, path |-> NoPath,
                           sha |-> None, res |-> res])
    /\ IF res = Raised
       THEN /\ ret' = [error |-> <<"Unexpected error">>, details |-> "ConnectionError"]
            /\ pc' = "done"
            /\ UNCHANGED exc
       ELSE IF CheckPasses(res)
       THEN /\ pc' = "delete"
            /\ UNCHANGED <<ret, exc>>
       ELSE IF res.body.kind = "dict"
       THEN /\ ret' = [error |-> <<"HTTP Error ", res.status>>,
                       message |-> "message",
                       documentation_url |-> "documentation_url"]
            /\ pc' = "done"
            /\ UNCHANGED exc
       ELSE /\ exc' = (IF res.body.kind = "list" THEN "AttributeError"
                       ELSE "JSONDecodeError")
            /\ pc' = "raised"
            /\ UNCHANGED ret
    /\ UNCHANGED <<tool, fs, ossep, target, insep, files, k, github_path, sha,
                   put_res, results, out, proc>>

\* line 200
Deleted(res) == res.status = 204

\* lines 198-209 and the handler of lines 217-221
Delete(res) ==
    /\ pc = "delete"
    /\ log' = Append(log, [op |-> "DELETE", file |-> 0, path |-> NoPath,
                           sha |-> None, res |-> res])
    /\ ret' = IF res = Raised
              THEN [error |-> <<"Unexpected error">>, details |-> "ConnectionError"]
              ELSE IF Deleted(res)
              THEN [status |-> "success", message |-> "deleted successfully"]
              ELSE IF res.body.kind = "notjson"
              THEN [error |-> <<"Unexpected error">>, details |-> "JSONDecodeError"]
              ELSE [error |-> <<"Failed to delete repository (HTTP ", res.status, ")">>,
                    details |-> res.body.kind]
    /\ pc' = "done"
    /\ UNCHANGED <<tool, fs, ossep, target, insep, files, k, github_path, sha,
                   put_res, exc, results, out, proc>>

\* ----------------------------------------------------- run_command
Texts == {<<>>, <<"o">>, <<"e">>}

\* the two streams the other way round
StderrOrStdout(stdout, stderr) == IF stderr # <<>> THEN stderr ELSE stdout

\* line 33: result.stdout or result.stderr
StdoutOrStderr(stdout, stderr) == IF stdout # <<>> THEN stdout ELSE stderr

\* lines 25-35; launched is FALSE when subprocess.run raises, e is str(e) then
run_command(launched, stdout, stderr, e) ==
    /\ pc = "idle"
    /\ tool' = "run"
    /\ proc' = [launched |-> launched,
                stdout |-> (IF launched THEN stdout ELSE <<>>),
                stderr |-> (IF launched THEN stderr ELSE <<>>),
                error |-> (IF launched THEN <<>> ELSE e)]
    /\ out' = (IF launched THEN StdoutOrStderr(stdout, stderr) ELSE e)
    /\ pc' = "done"
    /\ UNCHANGED <<fs, ossep, target, insep, files, k, github_path, sha, put_res,
                   exc, results, log, ret>>

\* ------------------------------------------------------------ Next
Next ==
    \/ \E p \in CandidatePaths, s \in {BACKSLASH, SLASH} : InvokePush(p, s)
    \/ CallPushSingle
    \/ \E ok \in BOOLEAN : OpenRead(ok)
    \/ \E res \in GetAnswers : Get(res)
    \/ \E res \in PutAnswers : Put(res)
    \/ Except
    \/ ReturnReport
    \/ InvokeDelete
    \/ \E res \in CheckAnswers : Check(res)
    \/ \E res \in DeleteAnswers : Delete(res)
    \/ \E l \in BOOLEAN, so \in Texts, se \in Texts, e \in {<<"x">>, <<>>} :
          run_command(l, so, se, e)

Spec == Init /\ [][Next]_vars

\* ================================================================ claims
Returned == pc = "done"
PushReturned == tool = "push" /\ Returned
IsPushReport(r) == DOMAIN r = {"status", "success_count", "error_count", "details"}
TargetExists == exists(fs, target, insep)
FilesUnder == { f \in fs : IsPrefix(target, f) }
LogOf(op, f) == { i \in 1..Len(log) : log[i].op = op /\ log[i].file = f }
HasBackslash(s) == \E j \in 1..Len(s) : s[j] = BACKSLASH
OpRank(op) == IF op = "READ" THEN 1 ELSE IF op = "GET" THEN 2 ELSE 3

C2_BatchNeverAborts ==
    tool = "push" =>
        /\ pc # "raised"
        /\ (pc = "loop" => Len(results) = k)
        /\ ((Returned /\ TargetExists) => Len(ret.details) = Len(files))

\* C3: the PUT of a file follows the GET of that file; it carries no sha
\* when the GET answered another status than 200, and the hash of the GET
\* when it answered 200 with a hash.
C3_ShaFollowsGet ==
    tool = "push" =>
        \A i \in 1..Len(log) :
            log[i].op = "PUT" =>
                /\ i > 1
                /\ log[i - 1].op = "GET"
                /\ log[i - 1].file = log[i].file
                /\ (log[i - 1].res.status # 200 => log[i].sha = None)
                /\ ((log[i - 1].res.status = 200 /\ log[i - 1].res.body.sha # None)
                       => log[i].sha = log[i - 1].res.body.sha)

C3_Witness ==
    /\ tool = "push"
    /\ \E i \in 1..Len(log) :
          /\ log[i].op = "PUT" /\ log[i].sha = None
          /\ log[i - 1].res.status = 404 /\ log[i - 1].res.body.sha = Hash
    /\ \E i \in 1..Len(log) :
          /\ log[i].op = "PUT" /\ log[i].sha = Hash
          /\ log[i - 1].res.status = 200

\* C4: for a path that does not exist the push returns the single object
\* {error: "Path not found: ..."} and sends no request.
C4_PathNotFound ==
    (tool = "push" /\ ~TargetExists) =>
        /\ Returned
        /\ DOMAIN ret = {"error"}
        /\ ret.error = <<"Path not found: ", Join(target, insep)>>
        /\ log = <<>>

C4_Witness ==
    /\ PushReturned
    /\ ~TargetExists
    /\ Len(target) > 1
    /\ DOMAIN ret = {"error"}

\* C5: no path of a Push Result, success or error, holds a backslash.
C5_NoBackslashInPath ==
    \A i \in 1..Len(results) : ~HasBackslash(results[i].path)

\* C6: a delete whose existence check answers an HTTP error status, with
\* any body, returns an error object citing that status and never raises.
C6_DeleteMissingReturnsError ==
    (tool = "delete" /\ Len(log) >= 1 /\ IsHttpError(log[1].res)) =>
        /\ Returned
        /\ "error" \in DOMAIN ret
        /\ ret.error = <<"HTTP Error ", log[1].res.status>>

\* C7: run_command always returns a string and never raises: the standard
\* output when it is not empty, else the standard error, and the text of
\* the exception when the launch failed.
C7_RunCommandResult ==
    tool = "run" =>
        /\ Returned
        /\ out = (IF ~proc.launched THEN proc.error
                  ELSE IF Len(proc.stdout) > 0 THEN proc.stdout
                  ELSE proc.stderr)

C7_Witness ==
    /\ tool = "run"
    /\ Returned
    /\ proc.launched
    /\ proc.stdout = <<"o">>
    /\ proc.stderr = <<"e">>
    /\ out = <<"o">>

\* C8: the DELETE is sent only after the existence check answered a status
\* that is no error, at most once, and success is returned only for a
\* DELETE that answered 204.
C8_DeleteAfterCheck ==
    tool = "delete" =>
        /\ \A i \in 1..Len(log) :
              log[i].op = "DELETE" =>
                  /\ i = 2
                  /\ log[1].op = "GET"
                  /\ log[1].res # Raised
                  /\ ~IsHttpError(log[1].res)
        /\ Cardinality(LogOf("DELETE", 0)) <= 1
        /\ ((Returned /\ "status" \in DOMAIN ret) =>
               /\ ret.status = "success"
               /\ Len(log) = 2
               /\ log[2].op = "DELETE"
               /\ log[2].res.status = 204)

C8_Witness ==
    /\ tool = "delete"
    /\ Returned
    /\ "status" \in DOMAIN ret
    /\ Len(log) = 2

\* C9: the files are published one after another in discovery order: the
\* read, GET and PUT of a file come in that order and before those of the
\* next file, the record of a file is appended before the next file is
\* touched, and the k-th record is that of the k-th discovered file.
C9_Sequential ==
    tool = "push" =>
        /\ \A i, j \in 1..Len(log) :
              i < j =>
                  /\ log[i].file <= log[j].file
                  /\ (log[i].file = log[j].file => OpRank(log[i].op) < OpRank(log[j].op))
        /\ \A i \in 1..Len(log) : Len(results) >= log[i].file - 1
        /\ Len(results) <= Len(files)
        /\ \A i \in 1..Len(results) : replace(results[i].path) = replace(files[i].rel)

C9_Witness ==
    /\ PushReturned
    /\ Len(files) = 2
    /\ Len(log) = 6
    /\ Len(results) = 2
    /\ results[1].status = "error"
    /\ results[2].status = "success"

\* C10: a success record means the file was read and exactly one PUT was
\* sent for it, which answered a status that is no error; no file gets a
\* second PUT, and success_count is at most the number of such PUTs.
C10_SuccessNeedsPut ==
    tool = "push" =>
        /\ \A i \in 1..Len(results) :
              results[i].status = "success" =>
                  /\ \E r \in LogOf("READ", i) : log[r].res.status = 1
                  /\ Cardinality(LogOf("PUT", i)) = 1
                  /\ \A p \in LogOf("PUT", i) :
                        log[p].res # Raised /\ ~IsHttpError(log[p].res)
        /\ \A f \in 1..Len(files) : Cardinality(LogOf("PUT", f)) <= 1
        /\ (Returned /\ TargetExists) =>
              ret.success_count <=
                  Cardinality({ p \in 1..Len(log) :
                                  /\ log[p].op = "PUT"
                                  /\ log[p].res # Raised
                                  /\ ~IsHttpError(log[p].res) })

C10_Witness ==
    /\ PushReturned
    /\ TargetExists
    /\ ret.success_count = 1
    /\ Len(ret.details) = 2
    /\ \E p \in 1..Len(log) : log[p].op = "PUT" /\ log[p].res.status = 422

====
